---- MODULE Spec2Model ----
(***************************************************************************)
(* A model of the combiner repository: the sequential pipeline             *)
(* combine_files (src/src/lib.rs) and the parallel pipeline process_files  *)
(* (src/src/file_processing.rs) as it is driven by main (src/src/main.rs). *)
(*                                                                         *)
(* A string is a sequence of one-character strings, so that paths can be   *)
(* split into components and matched against glob patterns.                *)
(***************************************************************************)
EXTENDS Integers, Sequences, FiniteSets, TLC

\* Largest token count the tokenizer returns for one file.
MaxTokens == 2
\* Largest number of directory entries for which the walker yields an error.
MaxWalkErrors == 1

----------------------------------------------------------------------------
\* Strings used by the model.

s_dot == <<".">>
s_w == <<"w">>
s_d == <<"d">>
s_root == <<"/">>
s_a_c == <<"a", ".", "c">>
s_n_b == <<"n", ".", "b">>
s_e_h == <<"e", ".", "h">>
s_o_c == <<"o", ".", "c">>
s_target == <<"t", "a", "r", "g", "e", "t">>

\* The working directory of the process.
Cwd == <<"/", "w">>

----------------------------------------------------------------------------
\* std::path::Path, as the code uses it.

is_absolute(p) == Len(p) > 0 /\ p[1] = "/"

\* The raw pieces of p between separators (empty pieces included).
RECURSIVE Pieces(_, _, _)
Pieces(p, i, cur) ==
    IF i > Len(p) THEN <<cur>>
    ELSE IF p[i] = "/" THEN <<cur>> \o Pieces(p, i + 1, <<>>)
    ELSE Pieces(p, i + 1, Append(cur, p[i]))

\* Path::components: the root, then the pieces, where empty pieces are
\* dropped and "." is kept only as the first component of a relative path.
components(p) ==
    LET ps == Pieces(p, 1, <<>>)
        keep == [i \in 1..Len(ps) |->
                    /\ ps[i] # <<>>
                    /\ (ps[i] = s_dot => (i = 1 /\ ~is_absolute(p)))]
        RECURSIVE Sel(_)
        Sel(i) == IF i > Len(ps) THEN <<>>
                  ELSE (IF keep[i] THEN <<ps[i]>> ELSE <<>>) \o Sel(i + 1)
    IN  (IF is_absolute(p) THEN <<s_root>> ELSE <<>>) \o Sel(1)

\* Path == Path compares the components.
path_eq(p, q) == components(p) = components(q)

\* PathBuf::join: an absolute argument replaces the base.
join(base, p) ==
    IF is_absolute(p) THEN p
    ELSE IF Len(base) > 0 /\ base[Len(base)] = "/" THEN base \o p
    ELSE base \o <<"/">> \o p

\* Path::file_name: the last component, unless it is the root.
file_name(p) ==
    LET cs == components(p)
    IN  IF cs = <<>> \/ cs[Len(cs)] = s_root THEN <<>> ELSE cs[Len(cs)]

\* Path::extension: the part of file_name after its last dot; none when
\* there is no dot or the only dot starts the name.
extension(p) ==
    LET n == file_name(p)
        dots == {i \in 1..Len(n) : n[i] = "."}
        last == IF dots = {} THEN 0 ELSE CHOOSE i \in dots : \A j \in dots : j <= i
    IN  IF last <= 1 THEN <<>> ELSE SubSeq(n, last + 1, Len(n))

\* The file system node a path names: the components of the path taken from
\* the working directory, without "." components.
Resolve(p) == components(join(Cwd, p))

----------------------------------------------------------------------------
\* glob::Pattern, as should_ignore and should_include use it.

\* Pattern::new fails on a character class that is never closed; the
\* patterns of this model hold no "]" and no "**".
pattern_compiles(pat) == \A i \in 1..Len(pat) : pat[i] # "["

\* Pattern::matches with the default options: the whole string has to
\* match, "?" is any one character, "*" any run of characters ("/" too).
RECURSIVE glob_from(_, _, _, _)
glob_from(pat, i, str, j) ==
    IF i > Len(pat) THEN j > Len(str)
    ELSE IF pat[i] = "*"
         THEN \E k \in j..(Len(str) + 1) : glob_from(pat, i + 1, str, k)
    ELSE IF j > Len(str) THEN FALSE
    ELSE IF pat[i] = "?" \/ pat[i] = str[j]
         THEN glob_from(pat, i + 1, str, j + 1)
    ELSE FALSE

\* Pattern::new(pattern).map(|glob| glob.matches(path)).unwrap_or(false)
glob_matches(pat, str) == pattern_compiles(pat) /\ glob_from(pat, 1, str, 1)

----------------------------------------------------------------------------
\* The admission filter of process_files.

TextExtensions ==
    { <<"t","x","t">>, <<"m","d">>, <<"r","s">>, <<"t","o","m","l">>,
      <<"j","s","o","n">>, <<"y","a","m","l">>, <<"y","m","l">>, <<"p","y">>,
      <<"j","s">>, <<"t","s">>, <<"h","t","m","l">>, <<"c","s","s">>,
      <<"s","h">>, <<"b","a","s","h">>, <<"x","m","l">>, <<"s","v","g">>,
      <<"c","p","p">>, <<"c">>, <<"h">>, <<"h","p","p">> }

is_text_file(path) == extension(path) \in TextExtensions

should_ignore(path, patterns) ==
    \E i \in 1..Len(patterns) : glob_matches(patterns[i], path)

should_include(path, patterns) ==
    \/ patterns = <<>>
    \/ \E i \in 1..Len(patterns) : glob_matches(patterns[i], path)

\* The filter closure with the include patterns deciding before the ignore
\* patterns.
admitted_include_first(e, ignore, include) ==
    /\ e.kind = "file"
    /\ is_text_file(e.path)
    /\ IF include # <<>> THEN should_include(e.path, include)
       ELSE ~should_ignore(e.path, ignore)

\* The filter closure without the extension check.
admitted_any_extension(e, ignore, include) ==
    /\ e.kind = "file"
    /\ ~should_ignore(e.path, ignore)
    /\ should_include(e.path, include)

\* The filter closure of process_files, for an entry the walker yielded.
admitted(e, ignore, include) ==
    /\ e.kind = "file"
    /\ is_text_file(e.path)
    /\ ~should_ignore(e.path, ignore)
    /\ should_include(e.path, include)

----------------------------------------------------------------------------
\* The file system the runs work on: the nodes under the working directory,
\* each named by its components from the root, and the output file, which
\* the run creates before it walks.

Tree ==
    { [node |-> <<s_root, s_w>>, kind |-> "dir"],
      [node |-> <<s_root, s_w, s_a_c>>, kind |-> "file"],
      [node |-> <<s_root, s_w, s_n_b>>, kind |-> "file"],
      [node |-> <<s_root, s_w, s_d>>, kind |-> "dir"],
      [node |-> <<s_root, s_w, s_d, s_e_h>>, kind |-> "file"] }

FileSystem(out_file) == Tree \cup {[node |-> Resolve(out_file), kind |-> "file"]}

IsPrefix(a, b) == Len(a) <= Len(b) /\ SubSeq(b, 1, Len(a)) = a

\* The path the walker reports for a node below the directory it was given:
\* the directory as given, joined with the names that lead to the node.
RECURSIVE JoinAll(_, _)
JoinAll(base, names) ==
    IF names = <<>> THEN base ELSE JoinAll(join(base, Head(names)), Tail(names))

\* The entries WalkDir::new(dir) and Walk::new(dir) yield: the directory
\* itself and every node below it.
WalkEntries(dir, out_file) ==
    LET top == Resolve(dir)
    IN  { [path |-> JoinAll(dir, SubSeq(n.node, Len(top) + 1, Len(n.node))),
           kind |-> n.kind] :
          n \in {m \in FileSystem(out_file) : IsPrefix(top, m.node)} }

\* The inputs of a run.
Directories == { s_dot, s_d, <<"/", "w">> }
OutputFiles == { s_o_c, <<"d", "/", "o", ".", "c">>, <<"/", "w", "/", "o", ".", "c">> }
IgnoreLists ==
    { <<>>,
      << <<"*", ".", "c">> >>,
      << <<"[", "*">>, <<"*", "/", "e", ".", "h">> >> }
IncludeLists ==
    { <<>>,
      << <<"*", ".", "c">> >>,
      << <<"?", ".", "h">>, <<"*", "d", "*">> >> }

----------------------------------------------------------------------------
VARIABLES
    entry_point,      \* "combine_files" (lib.rs) or "process_files" (main.rs)
    directory,        \* the input directory, as given
    output,           \* the output file, as given
    cli_ignore,       \* the ignore patterns of the command line and the config
    include_patterns, \* config.include_patterns
    pc,               \* where the coordinating thread is
    ignore_patterns,  \* main: the ignore patterns handed to process_files
    output_path,      \* combine_files: the output path it compares entries with
    pending,          \* combine_files: the entries the walker has yet to yield
    failed_entries,   \* the entries for which the walker yielded an error
    stats,            \* combine_files: the Statistics value
    out,              \* the writes the output file received, in order
    files,            \* process_files: the paths the filter collected
    wpc,              \* process_files: where each file's process_file call is
    lock,             \* process_files: the file whose call holds the output mutex
    results,          \* process_files: what each process_file call returned
    result,           \* process_files: the ProcessingResult returned
    processing_time,  \* main: the elapsed time it takes after process_files
    attempted,        \* the paths process_file was called with
    processed,        \* <<path, tokens>> for each Ok(..) arm taken
    skipped,          \* the paths for which the Err(..) arm was taken
    abort_cause,      \* why the run returned an error
    tokenizer,        \* the tokenizer name given: combine_files' argument,
                      \* or the text of main's --tokenization-method option
    args,             \* main: the other command line options, as given
    config_file,      \* main: the config file load_config looks at
    cpc,              \* where the configuration of the run is
    opt,              \* main: Opt::from_args()
    config,           \* main: what load_config returned
    main_output_file, \* main: what determine_output_file returned
    bpe,              \* the scheme of the CoreBPE the run encodes with
    ignored           \* process_files: the last path the filter closure asked
                      \* should_ignore about, and the answer

cfg_vars == <<tokenizer, args, config_file, cpc, opt, config, main_output_file,
              bpe, ignored>>
inputs == <<entry_point, directory, output, cli_ignore, include_patterns,
            cfg_vars>>
seq_vars == <<output_path, pending, stats>>
par_vars == <<ignore_patterns, files, wpc, lock, results, result, processing_time>>
log_vars == <<processed, skipped>>
vars == <<inputs, pc, seq_vars, par_vars, log_vars, failed_entries, out, attempted,
          abort_cause>>

NoFile == <<>>
NoResult == [kind |-> "none"]
NoStats == [kind |-> "none"]
NoArgs == [kind |-> "none"]
NoOpt == [kind |-> "none"]
NoConfig == [kind |-> "none"]
NoConfigFile == [exists |-> FALSE]
NoAnswer == [kind |-> "none"]

\* The run is past its configuration: the pipelines below start from the
\* directory, the output file and the patterns the configuration settled.
Configured ==
    /\ tokenizer = <<>>
    /\ args = NoArgs
    /\ config_file = NoConfigFile
    /\ cpc = "configured"
    /\ opt = NoOpt
    /\ config = NoConfig
    /\ main_output_file = NoFile
    /\ bpe = "none"
    /\ ignored = NoAnswer

Init ==
    /\ entry_point \in {"combine_files", "process_files"}
    /\ directory \in Directories
    /\ output \in OutputFiles
    /\ cli_ignore \in (IF entry_point = "process_files" THEN IgnoreLists ELSE {<<>>})
    /\ include_patterns \in (IF entry_point = "process_files" THEN IncludeLists ELSE {<<>>})
    /\ pc = "start"
    /\ ignore_patterns = <<>>
    /\ output_path = NoFile
    /\ pending = {}
    /\ failed_entries = {}
    /\ stats = NoStats
    /\ out = <<>>
    /\ files = {}
    /\ wpc = <<>>
    /\ lock = NoFile
    /\ results = <<>>
    /\ result = NoResult
    /\ processing_time = "default"
    /\ attempted = {}
    /\ processed = {}
    /\ skipped = {}
    /\ abort_cause = "none"
    /\ Configured

----------------------------------------------------------------------------
\* statistics.rs; combine_files builds the same value and updates it inline.

\* Statistics::new
new_statistics(output_file) ==
    [ files_processed |-> 0,
      files_skipped |-> 0,
      directories_visited |-> 1,
      total_tokens |-> 0,
      max_tokens |-> 0,
      max_tokens_file |-> <<>>,
      processing_time |-> "default",
      output_file |-> output_file ]

\* update_token_stats with the total kept inside the test for a new maximum.
update_token_stats_total_in_branch(s, tokens, file_path) ==
    IF tokens > s.max_tokens
    THEN [s EXCEPT !.total_tokens = @ + tokens, !.max_tokens = tokens,
                   !.max_tokens_file = file_path]
    ELSE s

\* update_token_stats with the two fields compared apart: the path with >=,
\* the count with >.
update_token_stats_torn(s, tokens, file_path) ==
    LET t == [s EXCEPT !.total_tokens = @ + tokens]
        u == IF tokens >= s.max_tokens THEN [t EXCEPT !.max_tokens_file = file_path]
             ELSE t
    IN  IF tokens > s.max_tokens THEN [u EXCEPT !.max_tokens = tokens] ELSE u

\* Statistics::update_token_stats
update_token_stats(s, tokens, file_path) ==
    LET t == [s EXCEPT !.total_tokens = @ + tokens]
    IN  IF tokens > s.max_tokens
        THEN [t EXCEPT !.max_tokens = tokens, !.max_tokens_file = file_path]
        ELSE t

increment_processed_files(s) == [s EXCEPT !.files_processed = @ + 1]
\* increment_skipped_files that leaves the counter alone.
increment_skipped_files_lost(s) == s

increment_skipped_files(s) == [s EXCEPT !.files_skipped = @ + 1]
increment_directories_visited(s) == [s EXCEPT !.directories_visited = @ + 1]
set_processing_time(s) == [s EXCEPT !.processing_time = "elapsed"]

----------------------------------------------------------------------------
\* combine_files (lib.rs): one thread walks the directory and handles each
\* entry in turn.

Write(file, part) == [file |-> file, part |-> part]

\* The output path: "." joined with the output when the directory is relative.
resolve_output_path(dir, output_file) ==
    IF ~is_absolute(dir) THEN join(s_dot, output_file) ELSE output_file

\* The first branch without the comparison with the root.
is_subdirectory_root_too(e, dir) == e.kind = "dir"

\* The first branch of the loop body: a directory other than the root.
is_subdirectory(e, dir) == e.kind = "dir" /\ ~path_eq(e.path, dir)

\* The second branch of the loop body: a file other than the output file.
is_input_file(e, dir, out_path) ==
    /\ ~is_subdirectory(e, dir)
    /\ e.kind = "file"
    /\ ~path_eq(e.path, out_path)

\* The output file is opened, the statistics are built and the walk starts.
CombineOpen ==
    /\ pc = "start" /\ entry_point = "combine_files"
    /\ output_path' = resolve_output_path(directory, output)
    /\ stats' = new_statistics(output_path')
    /\ pending' = WalkEntries(directory, output)
    /\ pc' = "walking"
    /\ UNCHANGED <<inputs, par_vars, failed_entries, out, attempted, processed,
                   skipped, abort_cause>>

\* The output file cannot be created: the error is returned.
CombineOpenFail ==
    /\ pc = "start" /\ entry_point = "combine_files"
    /\ pc' = "aborted"
    /\ abort_cause' = "output"
    /\ UNCHANGED <<inputs, seq_vars, log_vars, par_vars, failed_entries, out, attempted>>

\* The walker yields a directory before the entries below it.
walk_yields(e, rest) ==
    /\ e \in rest
    /\ \A p \in rest \ {e} : ~IsPrefix(components(p.path), components(e.path))

\* The walker yields an error for an entry: entry.context(..)? returns it.
CombineWalkError == \E e \in pending :
    /\ pc = "walking" /\ walk_yields(e, pending)
    /\ Cardinality(failed_entries) < MaxWalkErrors
    /\ pending' = pending \ {e}
    /\ failed_entries' = failed_entries \cup {e}
    /\ pc' = "aborted"
    /\ abort_cause' = "walk"
    /\ UNCHANGED <<inputs, output_path, stats, processed, skipped, par_vars, out,
                   attempted>>

\* The walker yields a directory other than the root.
CombineVisitDir == \E e \in pending :
    /\ pc = "walking" /\ walk_yields(e, pending)
    /\ is_subdirectory(e, directory)
    /\ pending' = pending \ {e}
    /\ stats' = increment_directories_visited(stats)
    /\ UNCHANGED <<inputs, pc, output_path, processed, skipped, par_vars,
                   failed_entries, out, attempted, abort_cause>>

\* The walker yields the root or the output file: neither branch is taken.
CombinePass == \E e \in pending :
    /\ pc = "walking" /\ walk_yields(e, pending)
    /\ ~is_subdirectory(e, directory)
    /\ ~is_input_file(e, directory, output_path)
    /\ pending' = pending \ {e}
    /\ UNCHANGED <<inputs, pc, output_path, stats, processed, skipped, par_vars,
                   failed_entries, out, attempted, abort_cause>>

\* process_file returns Ok with `tokens` tokens: the statistics are updated
\* and the three writes of the block succeed.
CombineProcessOk == \E e \in pending, tokens \in 0..MaxTokens :
    /\ pc = "walking" /\ walk_yields(e, pending)
    /\ is_input_file(e, directory, output_path)
    /\ pending' = pending \ {e}
    /\ attempted' = attempted \cup {e.path}
    /\ stats' = increment_processed_files(update_token_stats(stats, tokens, e.path))
    /\ out' = out \o <<Write(e.path, "header"), Write(e.path, "content"),
                       Write(e.path, "newline")>>
    /\ processed' = processed \cup {<<e.path, tokens>>}
    /\ UNCHANGED <<inputs, pc, output_path, skipped, par_vars, failed_entries,
                   abort_cause>>

\* process_file returns Ok, and after `written` writes of the block the next
\* write to the output fails: the error is returned.
CombineWriteFail == \E e \in pending, tokens \in 0..MaxTokens, written \in 0..2 :
    /\ pc = "walking" /\ walk_yields(e, pending)
    /\ is_input_file(e, directory, output_path)
    /\ pending' = pending \ {e}
    /\ attempted' = attempted \cup {e.path}
    /\ stats' = update_token_stats(stats, tokens, e.path)
    /\ out' = out \o SubSeq(<<Write(e.path, "header"), Write(e.path, "content")>>,
                            1, written)
    /\ pc' = "aborted"
    /\ abort_cause' = "write"
    /\ UNCHANGED <<inputs, output_path, processed, skipped, par_vars, failed_entries>>

\* The Err arm written as process_file(..)?: the error is returned.
CombineProcessErr_propagated == \E e \in pending :
    /\ pc = "walking" /\ walk_yields(e, pending)
    /\ is_input_file(e, directory, output_path)
    /\ pending' = pending \ {e}
    /\ attempted' = attempted \cup {e.path}
    /\ skipped' = skipped \cup {e.path}
    /\ pc' = "aborted"
    /\ abort_cause' = "file"
    /\ UNCHANGED <<inputs, output_path, stats, processed, par_vars, failed_entries, out>>

\* process_file returns Err (the file cannot be opened, or is not UTF-8).
CombineProcessErr == \E e \in pending :
    /\ pc = "walking" /\ walk_yields(e, pending)
    /\ is_input_file(e, directory, output_path)
    /\ pending' = pending \ {e}
    /\ attempted' = attempted \cup {e.path}
    /\ stats' = increment_skipped_files(stats)
    /\ skipped' = skipped \cup {e.path}
    /\ UNCHANGED <<inputs, pc, output_path, processed, par_vars, failed_entries, out,
                   abort_cause>>

\* The elapsed time set before the walker is exhausted.
CombineFinish_early ==
    /\ pc = "walking"
    /\ stats' = set_processing_time(stats)
    /\ pc' = "done"
    /\ UNCHANGED <<inputs, output_path, pending, processed, skipped, par_vars,
                   failed_entries, out, attempted, abort_cause>>

\* The walk is over: the elapsed time is set and the statistics returned.
CombineFinish ==
    /\ pc = "walking" /\ pending = {}
    /\ stats' = set_processing_time(stats)
    /\ pc' = "done"
    /\ UNCHANGED <<inputs, output_path, pending, processed, skipped, par_vars,
                   failed_entries, out, attempted, abort_cause>>

CombineNext ==
    \/ CombineOpen
    \/ CombineOpenFail
    \/ CombineWalkError
    \/ CombineVisitDir
    \/ CombinePass
    \/ CombineProcessOk
    \/ CombineWriteFail
    \/ CombineProcessErr
    \/ CombineFinish

----------------------------------------------------------------------------
\* main (main.rs) and process_files (file_processing.rs): the walk is
\* collected through the admission filter, then process_file runs on the
\* collected files in parallel, each call holding the output mutex.

\* main: the merged ignore patterns, "target" unless it is there already,
\* then the output file.
main_ignore_patterns(cli, output_file) ==
    LET target == IF \E i \in 1..Len(cli) : cli[i] = s_target THEN <<>> ELSE <<s_target>>
    IN  cli \o target \o <<output_file>>

\* The files the walk collects when the walker yields errors for `errs`:
\* filter_map(Result::ok) drops those, the filter closure decides the rest.
collect_files(entries, errs, ignore, include) ==
    { e.path : e \in {x \in entries \ errs : admitted(x, ignore, include)} }

\* A lock that never waits.
can_lock_unguarded(holder) == TRUE

\* output.lock(): the call waits until no other call holds the mutex.
can_lock(holder) == holder = NoFile

Ok(tokens) == [kind |-> "ok", tokens |-> tokens]
Err(error) == [kind |-> "err", error |-> error]

\* main: the ignore patterns are put together and process_files is called.
Main ==
    /\ pc = "start" /\ entry_point = "process_files"
    /\ ignore_patterns' = main_ignore_patterns(cli_ignore, output)
    /\ pc' = "process_files"
    /\ UNCHANGED <<inputs, seq_vars, log_vars, files, wpc, lock, results,
                   result, processing_time, failed_entries, out, attempted,
                   abort_cause>>

\* File::create(output_file) fails: process_files returns the error.
CreateFail ==
    /\ pc = "process_files"
    /\ pc' = "aborted"
    /\ abort_cause' = "output"
    /\ UNCHANGED <<inputs, seq_vars, log_vars, par_vars, failed_entries, out, attempted>>

\* The output file is created and the walk is collected into `files`.
Collect == \E errs \in SUBSET WalkEntries(directory, output) :
    /\ pc = "process_files"
    /\ Cardinality(errs) <= MaxWalkErrors
    /\ failed_entries' = errs
    /\ files' = collect_files(WalkEntries(directory, output), errs,
                              ignore_patterns, include_patterns)
    /\ wpc' = [f \in files' |-> "called"]
    /\ results' = [f \in files' |-> NoResult]
    /\ pc' = "parallel"
    /\ UNCHANGED <<inputs, seq_vars, log_vars, ignore_patterns, lock, result,
                   processing_time, out, attempted, abort_cause>>

\* process_file(path): the call takes the output mutex.
Lock == \E f \in files :
    /\ pc = "parallel" /\ f \in files /\ wpc[f] = "called"
    /\ can_lock(lock)
    /\ lock' = f
    /\ attempted' = attempted \cup {f}
    /\ wpc' = [wpc EXCEPT ![f] = "header"]
    /\ UNCHANGED <<inputs, pc, seq_vars, log_vars, ignore_patterns, files,
                   results, result, processing_time, failed_entries, out,
                   abort_cause>>

\* One of the four writes of process_file succeeds.
WriteStep(f, at, part, next) ==
    /\ pc = "parallel" /\ f \in files /\ wpc[f] = at
    /\ out' = Append(out, Write(f, part))
    /\ wpc' = [wpc EXCEPT ![f] = next]
    /\ UNCHANGED <<inputs, pc, seq_vars, log_vars, ignore_patterns, files, lock,
                   results, result, processing_time, failed_entries, attempted,
                   abort_cause>>

WriteHeader == \E f \in files : WriteStep(f, "header", "header", "separator")
WriteSeparator == \E f \in files : WriteStep(f, "separator", "separator", "read")
WriteContent == \E f \in files : WriteStep(f, "content", "content", "trailer")
WriteTrailer == \E f \in files : WriteStep(f, "trailer", "trailer", "encode")

\* process_file returns `r`: the guard is dropped, which frees the mutex.
Return(f, r) ==
    /\ results' = [results EXCEPT ![f] = r]
    /\ wpc' = [wpc EXCEPT ![f] = "returned"]
    /\ lock' = IF lock = f THEN NoFile ELSE lock
    /\ processed' = IF r.kind = "ok" THEN processed \cup {<<f, r.tokens>>} ELSE processed
    /\ skipped' = IF r.kind = "err" THEN skipped \cup {f} ELSE skipped
    /\ UNCHANGED <<inputs, pc, seq_vars, ignore_patterns, files, result,
                   processing_time, failed_entries, out, attempted,
                   abort_cause>>

\* One of the four writes fails: Err(CombinerError::Io).
WriteFail == \E f \in files :
    /\ pc = "parallel" /\ f \in files
    /\ wpc[f] \in {"header", "separator", "content", "trailer"}
    /\ Return(f, Err("io: write"))

\* fs::read_to_string succeeds.
ReadFile == \E f \in files :
    /\ pc = "parallel" /\ f \in files /\ wpc[f] = "read"
    /\ wpc' = [wpc EXCEPT ![f] = "content"]
    /\ UNCHANGED <<inputs, pc, seq_vars, log_vars, ignore_patterns, files, lock,
                   results, result, processing_time, failed_entries, out,
                   attempted, abort_cause>>

\* fs::read_to_string fails (unreadable, or not UTF-8):
\* Err(CombinerError::FileProcessing).
ReadFail == \E f \in files :
    /\ pc = "parallel" /\ f \in files /\ wpc[f] = "read"
    /\ Return(f, Err("file_processing"))

\* The content is encoded into `tokens` tokens and the metadata read: Ok.
Encode == \E f \in files, tokens \in 0..MaxTokens :
    /\ pc = "parallel" /\ f \in files /\ wpc[f] = "encode"
    /\ Return(f, Ok(tokens))

\* fs::metadata fails after the content was written: Err(CombinerError::Io).
MetadataFail == \E f \in files :
    /\ pc = "parallel" /\ f \in files /\ wpc[f] = "encode"
    /\ Return(f, Err("io: metadata"))

RECURSIVE SumTokens(_)
SumTokens(S) ==
    IF S = {} THEN 0
    ELSE LET x == CHOOSE y \in S : TRUE IN x[2] + SumTokens(S \ {x})

\* The results are partitioned into the ProcessingResult.
partition(fs, res) ==
    LET file_stats == { <<f, res[f].tokens>> : f \in {g \in fs : res[g].kind = "ok"} }
        skipped_files == { <<f, res[f].error>> : f \in {g \in fs : res[g].kind = "err"} }
    IN  [ kind |-> "result",
          files_processed |-> Cardinality(file_stats),
          total_tokens |-> SumTokens(file_stats),
          file_stats |-> file_stats,
          skipped_files |-> skipped_files ]

\* Every call has returned: process_files returns the ProcessingResult and
\* main takes the elapsed time.
Partition ==
    /\ pc = "parallel"
    /\ \A f \in files : wpc[f] = "returned"
    /\ result' = partition(files, results)
    /\ processing_time' = "elapsed"
    /\ pc' = "done"
    /\ UNCHANGED <<inputs, seq_vars, log_vars, ignore_patterns, files, wpc, lock, results,
                   failed_entries, out, attempted, abort_cause>>

ProcessNext ==
    \/ Main
    \/ CreateFail
    \/ Collect
    \/ Lock
    \/ WriteHeader
    \/ WriteSeparator
    \/ ReadFile
    \/ ReadFail
    \/ WriteContent
    \/ WriteTrailer
    \/ WriteFail
    \/ Encode
    \/ MetadataFail
    \/ Partition

Next == CombineNext \/ ProcessNext

Spec == Init /\ [][Next]_vars

----------------------------------------------------------------------------
\* What a run reports, whichever pipeline ran.

IsCombine == entry_point = "combine_files"
Entries == WalkEntries(directory, output)
Paths(S) == { x[1] : x \in S }

\* main.rs takes files_failed from skipped_files.len().
FilesProcessed == IF IsCombine THEN stats.files_processed ELSE result.files_processed
FilesSkipped ==
    IF IsCombine THEN stats.files_skipped ELSE Cardinality(result.skipped_files)
TotalTokens == IF IsCombine THEN stats.total_tokens ELSE result.total_tokens

\* A file the walker yielded and the pipeline's admission check turned away.
Rejected(e) ==
    /\ e.kind = "file"
    /\ e \notin failed_entries
    /\ IF IsCombine THEN ~is_input_file(e, directory, output_path)
       ELSE ~admitted(e, ignore_patterns, include_patterns)

----------------------------------------------------------------------------
\* C1: when a run ends, files_processed + files_skipped is the number of
\* files process_file was called with; each of them is either processed or
\* skipped, never both, and a file the admission check turned away is
\* counted in neither.
C1_EveryAttemptCounted ==
    pc = "done" =>
        /\ FilesProcessed + FilesSkipped = Cardinality(attempted)
        /\ FilesProcessed = Cardinality(Paths(processed))
        /\ FilesSkipped = Cardinality(skipped)
        /\ Paths(processed) \cup skipped = attempted
        /\ Paths(processed) \cap skipped = {}
        /\ \A e \in Entries : Rejected(e) => e.path \notin Paths(processed) \cup skipped

\* A finished run with a processed file, a skipped file and a rejected file.
C1_Witness ==
    /\ pc = "done"
    /\ FilesProcessed >= 1
    /\ FilesSkipped >= 1
    /\ \E e \in Entries : Rejected(e)

\* C2: when a run ends, total_tokens is the sum of the token counts of the
\* processed files, each counted once, in whatever order the files were
\* handled.
C2_TotalIsSumOfProcessed ==
    pc = "done" => TotalTokens = SumTokens(processed)

\* A finished run with two processed files of different positive token
\* counts and a skipped file.
C2_Witness ==
    /\ pc = "done"
    /\ skipped # {}
    /\ \E x, y \in processed : x[2] > y[2] /\ y[2] > 0
    /\ TotalTokens >= 2

\* C3: in a run of combine_files with at least one processed file,
\* max_tokens_file names a processed file, max_tokens is its token count, and
\* no processed file has more tokens (also when every file has zero tokens).
C3_MaxNamesProcessedFile ==
    (IsCombine /\ pc \in {"walking", "done"} /\ processed # {}) =>
        \E x \in processed :
            /\ x[1] = stats.max_tokens_file
            /\ x[2] = stats.max_tokens
            /\ \A y \in processed : y[2] <= x[2]

\* C4: a file that matches an ignore pattern is not collected and never
\* handed to process_file, whatever the include patterns say.
C4_IgnoreWins ==
    (~IsCombine /\ pc \in {"parallel", "done"}) =>
        \A e \in Entries :
            should_ignore(e.path, ignore_patterns) =>
                e.path \notin files /\ e.path \notin attempted

\* A finished run of process_files in which a text file that the walker
\* yielded matches an ignore pattern and an include pattern.
C4_Witness ==
    /\ ~IsCombine /\ pc = "done"
    /\ \E e \in Entries \ failed_entries :
        /\ e.kind = "file" /\ is_text_file(e.path)
        /\ should_ignore(e.path, cli_ignore)
        /\ include_patterns # <<>>
        /\ should_include(e.path, include_patterns)
        /\ e.path \notin files


\* C5 as amended: in a run of process_files a file whose extension is not in
\* the allow-list is never handed to process_file, whatever the patterns,
\* and is neither processed nor skipped; when the run ends with an empty
\* include list, every file with an allow-listed extension that the walker
\* yielded and that no ignore pattern matches has been handed to
\* process_file.
C5_ExtensionFilter ==
    ~IsCombine =>
        /\ \A e \in Entries :
            (e.kind = "file" /\ ~is_text_file(e.path)) =>
                e.path \notin attempted \cup Paths(processed) \cup skipped
        /\ (pc = "done" /\ include_patterns = <<>>) =>
            \A e \in Entries \ failed_entries :
                (/\ e.kind = "file" /\ is_text_file(e.path)
                 /\ ~should_ignore(e.path, ignore_patterns)) => e.path \in attempted

\* A finished run of process_files with no patterns of the user's, in which
\* n.b was yielded and not attempted and a.c was attempted.
C5_Witness ==
    /\ ~IsCombine /\ pc = "done"
    /\ cli_ignore = <<>> /\ include_patterns = <<>>
    /\ \E e \in Entries \ failed_entries :
        e.kind = "file" /\ ~is_text_file(e.path) /\ e.path \notin attempted
    /\ \E e \in Entries :
        file_name(e.path) = s_a_c /\ e.path \in attempted

\* C5 as stated: in every run, of either pipeline, a file whose extension is
\* not in the allow-list is never attempted, processed or skipped, and under
\* empty ignore and include lists every yielded file with an allow-listed
\* extension (the output file aside) is attempted.
C5_AsStated ==
    /\ \A e \in Entries :
        (e.kind = "file" /\ ~is_text_file(e.path)) =>
            e.path \notin attempted \cup Paths(processed) \cup skipped
    /\ (pc = "done" /\ cli_ignore = <<>> /\ include_patterns = <<>>) =>
        \A e \in Entries \ failed_entries :
            (/\ e.kind = "file" /\ is_text_file(e.path)
             /\ Resolve(e.path) # Resolve(output)) => e.path \in attempted

\* C6: no path handed to process_file names the output file, whatever the
\* directory and the output path are.
C6_OutputNeverInput ==
    \A p \in attempted : Resolve(p) # Resolve(output)

\* The files skipped for a failure of their own: a read or decode failure,
\* or a metadata failure.
SkippedForFileFailure ==
    IF IsCombine THEN skipped
    ELSE { f \in skipped : results[f].error \in {"file_processing", "io: metadata"} }

WritesOf(f, part) == { i \in 1..Len(out) : out[i] = Write(f, part) }

\* C7: when a run ends, the output holds one header and one content write
\* for each processed file, the header first, and no write at all for a file
\* skipped after a read, decode or metadata failure (stated for the files
\* other than the output file).
C7_OneBlockPerProcessedFile ==
    pc = "done" =>
        /\ \A f \in Paths(processed) :
            /\ Cardinality(WritesOf(f, "header")) = 1
            /\ Cardinality(WritesOf(f, "content")) = 1
            /\ \A i \in WritesOf(f, "header"), j \in WritesOf(f, "content") : i < j
        /\ \A f \in SkippedForFileFailure :
            Resolve(f) # Resolve(output) => \A i \in 1..Len(out) : out[i].file # f

\* C8: the writes of one file are contiguous in the output: between two
\* writes of a file there is no write of another file.
C8_RecordsContiguous ==
    \A i, k \in 1..Len(out) :
        (i < k /\ out[i].file = out[k].file) =>
            \A j \in i..k : out[j].file = out[i].file

\* One call of process_file is in the middle of its record, with the mutex,
\* while the record of another file is in the output and a third call waits.
C8_Witness ==
    /\ ~IsCombine /\ pc = "parallel"
    /\ \E f, g, h \in files :
        /\ f # g /\ g # h /\ f # h
        /\ WritesOf(f, "header") # {}
        /\ lock = g /\ wpc[g] = "content"
        /\ wpc[h] = "called"

\* The paths the pipeline admitted.
AdmittedPaths ==
    IF IsCombine
    THEN { e.path : e \in {x \in Entries : is_input_file(x, directory, output_path)} }
    ELSE files

\* C9: a step that skips a file adds one skip record, leaves the run where
\* it was and returns no error; and a run that ends has handed every
\* admitted file to process_file and returns its result.
C9_FileFailureOnlySkips ==
    [][/\ skipped' # skipped =>
            /\ Cardinality(skipped') = Cardinality(skipped) + 1
            /\ pc' = pc
            /\ abort_cause' = "none"
       /\ pc' = "done" =>
            /\ attempted' = AdmittedPaths'
            /\ IF IsCombine THEN stats'.processing_time = "elapsed"
               ELSE result'.kind = "result"]_vars

\* A finished run in which one file was skipped for a failure of its own and
\* two others were processed.
C9_Witness ==
    /\ pc = "done"
    /\ SkippedForFileFailure # {}
    /\ Cardinality(Paths(processed)) >= 2
    /\ attempted = AdmittedPaths

\* C10: an error the walker yields for one entry does not end the run.
C10_WalkErrorDoesNotAbort ==
    failed_entries # {} => pc # "aborted"


\* The directories other than the root that the walker has yielded.
YieldedSubdirectories ==
    { e \in Entries \ pending :
        e.kind = "dir" /\ Resolve(e.path) # Resolve(directory) }

\* C12: in combine_files directories_visited starts at 1 and is, all along
\* the walk and when the run ends, 1 plus the number of directories other
\* than the root that the walker has yielded.
C12_DirectoriesVisited ==
    (IsCombine /\ pc \in {"walking", "done"}) =>
        /\ stats.directories_visited = 1 + Cardinality(YieldedSubdirectories)
        /\ pending = Entries => stats.directories_visited = 1

\* A finished run over a tree with a subdirectory: the root and the
\* subdirectory were both yielded and the count is 2.
C12_Witness ==
    /\ IsCombine /\ pc = "done"
    /\ \E e \in Entries : e.kind = "dir" /\ Resolve(e.path) = Resolve(directory)
    /\ YieldedSubdirectories # {}
    /\ stats.directories_visited = 2


\* The (max_tokens, max_tokens_file) pair of the statistics.
MaxPair(s) == <<s.max_tokens_file, s.max_tokens>>

\* The pair is the initial one or belongs to one processed file.
PairOfOneFile == MaxPair(stats) = <<<<>>, 0>> \/ MaxPair(stats) \in processed

\* C13: a call of update_token_stats with no more tokens than the current
\* maximum leaves max_tokens and max_tokens_file as they are, a call with
\* more tokens replaces both, no other step touches them, and in whatever
\* order the calls come the pair is never the path of one file with the
\* count of another.  (The method takes &mut self: a call is one step.)
C13_MaxPairIsOneUnit ==
    [][(IsCombine /\ pc = "walking") =>
        LET called == attempted' # attempted /\ skipped' = skipped
            tokens == stats'.total_tokens - stats.total_tokens
            file == (CHOOSE e \in pending \ pending' : TRUE).path
        IN  /\ called =>
                IF tokens > stats.max_tokens
                THEN MaxPair(stats') = <<file, tokens>>
                ELSE MaxPair(stats') = MaxPair(stats)
            /\ ~called => MaxPair(stats') = MaxPair(stats)
            /\ pc' \in {"walking", "done"} => PairOfOneFile']_vars

\* Two files were processed, with different positive token counts, and the
\* pair names the one with more tokens.
C13_Witness ==
    /\ IsCombine /\ pc = "walking"
    /\ stats.max_tokens = MaxTokens
    /\ \E x, y \in processed :
        /\ x[1] = stats.max_tokens_file /\ x[2] = stats.max_tokens
        /\ y[1] # x[1] /\ y[2] < x[2] /\ y[2] > 0


\* The elapsed time of the run: stats.processing_time in combine_files, the
\* processing_time of main otherwise.
ElapsedTime ==
    IF ~IsCombine THEN processing_time
    ELSE IF stats = NoStats THEN "default" ELSE stats.processing_time

\* No entry is left to the walker, or every process_file call has returned.
AllFilesFinished ==
    IF IsCombine THEN pc = "walking" /\ pending = {}
    ELSE pc = "parallel" /\ \A f \in files : wpc[f] = "returned"

\* C14: the elapsed time is set once, by the step that ends the run, which
\* is taken only when every file has been handled; a run that ends has it
\* set, and nothing of the statistics changes afterwards.
C14_ElapsedTimeSetOnceAtEnd ==
    [][/\ ElapsedTime' # ElapsedTime =>
            /\ ElapsedTime = "default" /\ ElapsedTime' = "elapsed"
            /\ AllFilesFinished
            /\ pc' = "done"
       /\ pc' = "done" => ElapsedTime' = "elapsed"
       /\ pc = "done" =>
            /\ stats' = stats
            /\ result' = result
            /\ processing_time' = processing_time]_vars

\* A finished run that handled several files and has its elapsed time set.
C14_Witness ==
    /\ pc = "done"
    /\ ElapsedTime = "elapsed"
    /\ Cardinality(attempted) >= 2
    /\ processed # {} /\ skipped # {}


----------------------------------------------------------------------------
\* The configuration of a run: the tokenizer is selected by name, and main
\* parses the command line, loads the config file, settles the output file
\* and the ignore patterns before process_files filters the walk.

n_o200k_base == <<"o", "2", "0", "0", "k", "_", "b", "a", "s", "e">>
n_cl100k_base == <<"c", "l", "1", "0", "0", "k", "_", "b", "a", "s", "e">>
n_p50k_base == <<"p", "5", "0", "k", "_", "b", "a", "s", "e">>
n_p50k_edit == <<"p", "5", "0", "k", "_", "e", "d", "i", "t">>
n_r50k_base == <<"r", "5", "0", "k", "_", "b", "a", "s", "e">>
n_gpt4o == <<"g", "p", "t", "4", "o">>
n_gpt4 == <<"g", "p", "t", "4">>
n_code == <<"c", "o", "d", "e">>
n_gpt2 == <<"g", "p", "t", "2">>
n_o200kbase == <<"o", "2", "0", "0", "k", "b", "a", "s", "e">>
n_cl100kbase == <<"c", "l", "1", "0", "0", "k", "b", "a", "s", "e">>
n_p50kbase == <<"p", "5", "0", "k", "b", "a", "s", "e">>
n_p50kedit == <<"p", "5", "0", "k", "e", "d", "i", "t">>
n_r50kbase == <<"r", "5", "0", "k", "b", "a", "s", "e">>
n_GPT4 == <<"G", "P", "T", "4">>
n_bogus == <<"b", "o", "g", "u", "s">>

UpperCase ==
    <<"A", "B", "C", "D", "E", "F", "G", "H", "I", "J", "K", "L", "M",
      "N", "O", "P", "Q", "R", "S", "T", "U", "V", "W", "X", "Y", "Z">>
LowerCase ==
    <<"a", "b", "c", "d", "e", "f", "g", "h", "i", "j", "k", "l", "m",
      "n", "o", "p", "q", "r", "s", "t", "u", "v", "w", "x", "y", "z">>

\* str::to_lowercase, on the characters of this model (ASCII).
to_lowercase(s) ==
    [ i \in 1..Len(s) |->
        IF \E k \in 1..Len(UpperCase) : UpperCase[k] = s[i]
        THEN LowerCase[CHOOSE k \in 1..Len(UpperCase) : UpperCase[k] = s[i]]
        ELSE s[i] ]

\* get_bpe with p50k_base in the `_` arm.
get_bpe_default_p50k(name) ==
    IF name = n_o200k_base THEN "o200k_base"
    ELSE IF name = n_cl100k_base THEN "cl100k_base"
    ELSE IF name = n_p50k_base THEN "p50k_base"
    ELSE IF name = n_p50k_edit THEN "p50k_edit"
    ELSE IF name = n_r50k_base THEN "r50k_base"
    ELSE "p50k_base"

\* get_bpe: the match on the name as given; the scheme stands for the
\* CoreBPE its loader returns (the loaders read vocabularies compiled into
\* the program).
get_bpe(name) ==
    IF name = n_o200k_base THEN "o200k_base"
    ELSE IF name = n_cl100k_base THEN "cl100k_base"
    ELSE IF name = n_p50k_base THEN "p50k_base"
    ELSE IF name = n_p50k_edit THEN "p50k_edit"
    ELSE IF name = n_r50k_base THEN "r50k_base"
    ELSE "cl100k_base"

Invalid == "Invalid tokenization method"

\* TokenizationMethod::from_str: the match on the lowercased name.
from_str(s) ==
    LET l == to_lowercase(s)
    IN  IF l = n_gpt4o \/ l = n_o200k_base THEN "O200kBase"
        ELSE IF l = n_gpt4 \/ l = n_cl100k_base THEN "Cl100kBase"
        ELSE IF l = n_code \/ l = n_p50k_base THEN "P50kBase"
        ELSE IF l = n_p50k_edit THEN "P50kEdit"
        ELSE IF l = n_gpt2 \/ l = n_r50k_base THEN "R50kBase"
        ELSE Invalid

UnknownVariant == "unknown variant"

\* Deserialize for TokenizationMethod: rename_all = "lowercase" names each
\* variant by its lowercased identifier, the aliases are accepted as well,
\* and the comparison is exact.
deserialize_method(s) ==
    IF s = n_o200kbase \/ s = n_gpt4o THEN "O200kBase"
    ELSE IF s = n_cl100kbase \/ s = n_gpt4 THEN "Cl100kBase"
    ELSE IF s = n_p50kbase \/ s = n_code THEN "P50kBase"
    ELSE IF s = n_p50kedit THEN "P50kEdit"
    ELSE IF s = n_r50kbase \/ s = n_gpt2 THEN "R50kBase"
    ELSE UnknownVariant

\* get_tokenizer: the loader each variant is matched to.
get_tokenizer(method) ==
    CASE method = "O200kBase" -> "o200k_base"
      [] method = "Cl100kBase" -> "cl100k_base"
      [] method = "P50kBase" -> "p50k_base"
      [] method = "P50kEdit" -> "p50k_edit"
      [] method = "R50kBase" -> "r50k_base"


\* Default for TokenizationMethod
default_method == "P50kBase"

DEFAULT_OUTPUT_PREFIX == <<"c", "o", "m", "b", "i", "n", "e", "r", "_">>
s_txt == <<".", "t", "x", "t">>

\* The table a config file holds: a set of <<key, value>> pairs.
has_key(table, key) == \E kv \in table : kv[1] = key
value_of(table, key) == (CHOOSE kv \in table : kv[1] = key)[2]

\* toml::from_str into Config: a missing tokenization_method takes
\* TokenizationMethod::default(), a missing output_file is None; the tables
\* of this model hold no patterns.
from_toml(table) ==
    [ ignore_patterns |-> <<>>,
      include_patterns |-> <<>>,
      output_file |->
          IF has_key(table, "output_file") THEN value_of(table, "output_file")
          ELSE NoFile,
      tokenization_method |->
          IF has_key(table, "tokenization_method")
          THEN deserialize_method(value_of(table, "tokenization_method"))
          ELSE default_method ]

\* load_config, when it returns Ok: an existing file is parsed, and the
\* command line's method replaces a parsed method equal to P50kBase.
load_config(o, file) ==
    IF file.exists
    THEN LET parsed == from_toml(file.table)
         IN  IF parsed.tokenization_method = "P50kBase"
             THEN [parsed EXCEPT !.tokenization_method = o.tokenization_method]
             ELSE parsed
    ELSE [ ignore_patterns |-> <<>>,
           include_patterns |-> <<>>,
           output_file |-> NoFile,
           tokenization_method |-> o.tokenization_method ]

\* merge_ignore_patterns
merge_ignore_patterns(cli_patterns, config_patterns) ==
    cli_patterns \o config_patterns

\* determine_output_file: the command line's file, else the config's, else
\* the prefix followed by the time of the call.
determine_output_file(o, c, datetime) ==
    IF o.output_file # NoFile THEN o.output_file
    ELSE IF c.output_file # NoFile THEN c.output_file
    ELSE DEFAULT_OUTPUT_PREFIX \o datetime \o s_txt

\* The times a run may start at (the text chrono formats, shortened).
Datetimes == { <<"0">>, <<"1">> }

\* The names the tokenizer is asked for.
TokenizerNames ==
    { n_o200k_base, n_cl100k_base, n_p50k_base, n_p50k_edit, n_r50k_base,
      n_gpt4o, n_gpt4, n_code, n_gpt2, n_GPT4, n_bogus }

\* The command lines: --output-file and --ignore-patterns.
CommandLines ==
    [ output_file : {NoFile, s_o_c},
      ignore_patterns : { <<>>, << <<"*", ".", "c">> >>, << <<"*">> \o s_txt >> } ]

\* The config files: none, or a table with or without tokenization_method
\* and output_file.
ConfigFiles ==
    {NoConfigFile} \cup
    { [exists |-> TRUE, table |-> m \cup f] :
        m \in { {} } \cup
              { {<<"tokenization_method", n>>} :
                  n \in { n_gpt4o, n_gpt4, n_code, n_p50kbase, n_p50kedit,
                          n_gpt2, n_p50k_base } },
        f \in { {}, {<<"output_file", s_o_c>>} } }

\* What WalkDir yields for the files of the input directory ".": a source
\* file, the file named o.c, and the output file an earlier run named by
\* default.
ConfigWalk ==
    { join(s_dot, s_a_c), join(s_dot, s_o_c),
      join(s_dot, DEFAULT_OUTPUT_PREFIX \o <<"0">> \o s_txt) }

pipeline_vars ==
    <<entry_point, directory, output, cli_ignore, include_patterns, pc,
      seq_vars, files, wpc, lock, results, result, processing_time, log_vars,
      failed_entries, out, attempted, abort_cause>>

ConfigInit ==
    /\ entry_point \in {"combine_files", "process_files"}
    /\ directory = s_dot
    /\ output = NoFile
    /\ cli_ignore = <<>>
    /\ include_patterns = <<>>
    /\ pc = "start"
    /\ ignore_patterns = <<>>
    /\ output_path = NoFile
    /\ pending = {}
    /\ failed_entries = {}
    /\ stats = NoStats
    /\ out = <<>>
    /\ files = {}
    /\ wpc = <<>>
    /\ lock = NoFile
    /\ results = <<>>
    /\ result = NoResult
    /\ processing_time = "default"
    /\ attempted = {}
    /\ processed = {}
    /\ skipped = {}
    /\ abort_cause = "none"
    /\ tokenizer \in TokenizerNames
    /\ args \in (IF IsCombine THEN {NoArgs} ELSE CommandLines)
    /\ config_file \in (IF IsCombine THEN {NoConfigFile} ELSE ConfigFiles)
    /\ cpc = "start"
    /\ opt = NoOpt
    /\ config = NoConfig
    /\ main_output_file = NoFile
    /\ bpe = "none"
    /\ ignored = NoAnswer

\* combine_files: let bpe = get_bpe(tokenizer)
CombineGetBpe ==
    /\ cpc = "start" /\ IsCombine
    /\ bpe' = get_bpe(tokenizer)
    /\ cpc' = "selected"
    /\ UNCHANGED <<pipeline_vars, ignore_patterns, tokenizer, args, config_file,
                   opt, config, main_output_file, ignored>>

\* main: Opt::from_args() with a method name from_str accepts.
FromArgs ==
    /\ cpc = "start" /\ ~IsCombine
    /\ from_str(tokenizer) # Invalid
    /\ opt' = [ tokenization_method |-> from_str(tokenizer),
                output_file |-> args.output_file,
                ignore_patterns |-> args.ignore_patterns ]
    /\ cpc' = "parsed"
    /\ UNCHANGED <<pipeline_vars, ignore_patterns, tokenizer, args, config_file,
                   config, main_output_file, bpe, ignored>>

\* main: Opt::from_args() ends the program when from_str returns Err.
FromArgsFail ==
    /\ cpc = "start" /\ ~IsCombine
    /\ from_str(tokenizer) = Invalid
    /\ cpc' = "usage_error"
    /\ UNCHANGED <<pipeline_vars, ignore_patterns, tokenizer, args, config_file,
                   opt, config, main_output_file, bpe, ignored>>

\* toml::from_str fails on a method name that is no variant.
parse_fails(file) ==
    file.exists /\ from_toml(file.table).tokenization_method = UnknownVariant

\* main: load_config returns Ok(config).
LoadConfig ==
    /\ cpc = "parsed"
    /\ ~parse_fails(config_file)
    /\ config' = load_config(opt, config_file)
    /\ cpc' = "loaded"
    /\ UNCHANGED <<pipeline_vars, ignore_patterns, tokenizer, args, config_file,
                   opt, main_output_file, bpe, ignored>>

\* main: load_config returns Err: the file cannot be read or parsed.
LoadConfigFail ==
    /\ cpc = "parsed"
    /\ config_file.exists
    /\ cpc' = "config_error"
    /\ UNCHANGED <<pipeline_vars, ignore_patterns, tokenizer, args, config_file,
                   opt, config, main_output_file, bpe, ignored>>

\* main: the ignore patterns are merged, the output file is determined and
\* pushed onto them.
DetermineOutputFile == \E datetime \in Datetimes :
    /\ cpc = "loaded"
    /\ main_output_file' = determine_output_file(opt, config, datetime)
    /\ ignore_patterns' =
           main_ignore_patterns(
               merge_ignore_patterns(opt.ignore_patterns, config.ignore_patterns),
               main_output_file')
    /\ cpc' = "process_files"
    /\ UNCHANGED <<pipeline_vars, tokenizer, args, config_file, opt, config, bpe,
                   ignored>>

\* process_files: get_tokenizer(&config.tokenization_method)
GetTokenizer ==
    /\ cpc = "process_files"
    /\ bpe' = get_tokenizer(config.tokenization_method)
    /\ cpc' = "walking"
    /\ UNCHANGED <<pipeline_vars, ignore_patterns, tokenizer, args, config_file,
                   opt, config, main_output_file, ignored>>

\* process_files: the loader returns an error.
GetTokenizerFail ==
    /\ cpc = "process_files"
    /\ cpc' = "tokenization_error"
    /\ UNCHANGED <<pipeline_vars, ignore_patterns, tokenizer, args, config_file,
                   opt, config, main_output_file, bpe, ignored>>

\* process_files: the filter closure asks should_ignore about an entry.
Filter == \E path \in ConfigWalk :
    /\ cpc = "walking"
    /\ ignored' = [ path |-> path,
                    answer |-> should_ignore(path, ignore_patterns) ]
    /\ UNCHANGED <<pipeline_vars, ignore_patterns, tokenizer, args, config_file,
                   cpc, opt, config, main_output_file, bpe>>

ConfigNext ==
    \/ CombineGetBpe
    \/ FromArgs
    \/ FromArgsFail
    \/ LoadConfig
    \/ LoadConfigFail
    \/ DetermineOutputFile
    \/ GetTokenizer
    \/ GetTokenizerFail
    \/ Filter

ConfigSpec == ConfigInit /\ [][ConfigNext]_vars


----------------------------------------------------------------------------
\* C11 as stated: whichever way the tokenizer is selected by name, a name
\* that is none of the supported names selects the default scheme and
\* raises no error, and a supported name selects its scheme (the command
\* line's names counted as supported in any letter case).
SchemeOfName ==
    { <<n_o200k_base, "o200k_base">>, <<n_cl100k_base, "cl100k_base">>,
      <<n_p50k_base, "p50k_base">>, <<n_p50k_edit, "p50k_edit">>,
      <<n_r50k_base, "r50k_base">> }
MethodOfName ==
    { <<n_o200k_base, "O200kBase">>, <<n_gpt4o, "O200kBase">>,
      <<n_cl100k_base, "Cl100kBase">>, <<n_gpt4, "Cl100kBase">>,
      <<n_p50k_base, "P50kBase">>, <<n_code, "P50kBase">>,
      <<n_p50k_edit, "P50kEdit">>,
      <<n_r50k_base, "R50kBase">>, <<n_gpt2, "R50kBase">> }
Named(table, name) == \E x \in table : x[1] = name
C11_AsStated ==
    /\ (IsCombine /\ cpc = "selected") =>
           /\ \A x \in SchemeOfName : tokenizer = x[1] => bpe = x[2]
           /\ ~Named(SchemeOfName, tokenizer) => bpe = "cl100k_base"
    /\ (~IsCombine /\ cpc # "start") =>
           /\ cpc # "usage_error"
           /\ \A x \in MethodOfName :
                  to_lowercase(tokenizer) = x[1] =>
                      opt.tokenization_method = x[2]
           /\ ~Named(MethodOfName, to_lowercase(tokenizer)) =>
                  opt.tokenization_method = default_method

\* C11: get_bpe selects by the name as given: each of the five scheme names
\* selects its scheme, every other name selects cl100k_base, and no name is
\* an error.  The command line's method is selected by from_str instead:
\* one of the nine method names, in any letter case, selects its method, and
\* every other name is an error that ends the program before anything is
\* selected.
C11_SelectionByName ==
    /\ (IsCombine /\ cpc # "start") =>
           /\ cpc = "selected"
           /\ \A x \in SchemeOfName : tokenizer = x[1] => bpe = x[2]
           /\ ~Named(SchemeOfName, tokenizer) => bpe = "cl100k_base"
    /\ (~IsCombine /\ cpc # "start") =>
           IF Named(MethodOfName, to_lowercase(tokenizer))
           THEN /\ cpc # "usage_error"
                /\ \A x \in MethodOfName :
                       to_lowercase(tokenizer) = x[1] =>
                           opt.tokenization_method = x[2]
           ELSE cpc = "usage_error" /\ opt = NoOpt /\ bpe = "none"
C11_Witness ==
    /\ IsCombine /\ cpc = "selected"
    /\ tokenizer = n_bogus
    /\ bpe = "cl100k_base"


----------------------------------------------------------------------------
\* C15: should_ignore(path, patterns) answers true exactly when some ignore
\* pattern matches the path or the file name begins with the output-file
\* prefix combiner_, whatever the patterns are.
C15_IgnoredIffPatternOrPrefix ==
    ignored # NoAnswer =>
        LET name == file_name(ignored.path)
            prefix == DEFAULT_OUTPUT_PREFIX
        IN  ignored.answer <=>
                \/ \E i \in 1..Len(ignore_patterns) :
                       glob_matches(ignore_patterns[i], ignored.path)
                \/ /\ Len(name) >= Len(prefix)
                   /\ SubSeq(name, 1, Len(prefix)) = prefix

\* C16: with a config file, load_config returns the method the file
\* specifies, whatever the command line's method is, and the command line's
\* method only when the file specifies none.
C16_ConfigFileMethodWins ==
    (config # NoConfig /\ config_file.exists) =>
        IF has_key(config_file.table, "tokenization_method")
        THEN config.tokenization_method =
                 deserialize_method(value_of(config_file.table, "tokenization_method"))
        ELSE config.tokenization_method = opt.tokenization_method

====
